---------------------------- MODULE Spec2Model ----------------------------
(***************************************************************************)
(* A model of models/bert_emb.py: the loader that turns the flat weight    *)
(* store into the parameter tree, the forward pass of the encoder (bert,   *)
(* transformer_block, mha, ffn, layer_norm, linear), the pooling of the    *)
(* hidden states and the module's sentence loop.                           *)
(*                                                                         *)
(* Numbers.  numpy's floats are modelled as fixed-point numbers: the       *)
(* integer n stands for n / FX.  Sums and differences are exact, a product *)
(* and a quotient are rounded down to a multiple of 1 / FX, and np.exp,    *)
(* np.tanh (inside gelu) and np.sqrt are evaluated to the nearest          *)
(* multiple.  The one float that is not a number, NaN (0 / 0), is kept as  *)
(* the reserved number NaN, which no computation of the model reaches.     *)
(*                                                                         *)
(* Arrays.  A 2-d array is a record [r, c, v]: its shape (r, c) and its    *)
(* rows v, a sequence of r sequences of length c.  A 1-d array is a        *)
(* sequence.  An exception that leaves a function is the record            *)
(* [err |-> kind, key |-> ...], and it propagates through every caller.    *)
(***************************************************************************)
EXTENDS Integers, Sequences, FiniteSets, TLC

\* ------------------------------------------------------------- numbers

\* The fixed-point scale: four fractional bits.
FX == 2 ^ 4

NaN == -(2 ^ 30)

Max(a, b) == IF a >= b THEN a ELSE b

RECURSIVE SumSeq(_)
SumSeq(s) == IF s = <<>> THEN 0 ELSE Head(s) + SumSeq(Tail(s))

RECURSIVE MaxSeq(_)
MaxSeq(s) == IF Len(s) = 1 THEN s[1] ELSE Max(Head(s), MaxSeq(Tail(s)))

RECURSIVE IsqrtFrom(_, _)
IsqrtFrom(n, r) == IF (r + 1) * (r + 1) > n THEN r ELSE IsqrtFrom(n, r + 1)

\* The integer square root.
Isqrt(n) == IsqrtFrom(n, 0)

\* np.sqrt of the fixed-point number a.
SqrtFx(a) == Isqrt(a * FX)

MulFx(a, b) == (a * b) \div FX

\* a / b of floats.  The only zero divisor the code can meet divides 0,
\* and 0 / 0 is NaN (numpy warns and goes on).
DivFx(a, b) == IF b = 0 THEN NaN ELSE (a * FX) \div b


\* np.exp of a fixed-point number d <= 0, to the nearest multiple of 1 / FX:
\* ExpTable[k + 1] is exp(-k / FX), and it underflows to 0 below the table.
ExpTable ==
    << 16, 15, 14, 13, 12, 12, 11, 10, 10, 9, 9, 8, 8, 7, 7, 6, 6, 6, 5, 5,
       5, 4, 4, 4, 4, 3, 3, 3, 3, 3, 2, 2, 2, 2, 2, 2, 2, 2, 1, 1,
       1, 1, 1, 1, 1, 1, 1, 1, 1, 1, 1, 1, 1, 1, 1, 1 >>

ExpFx(d) == IF -d + 1 <= Len(ExpTable) THEN ExpTable[-d + 1] ELSE 0

\* gelu on -4 .. 4 in steps of 1 / FX, to the nearest multiple of 1 / FX:
\* GeluTable[k + 4 * FX + 1] is gelu(k / FX).
GeluTable ==
    << 0, 0, 0, 0, 0, 0, 0, 0, 0, 0, 0, 0, 0, 0, 0, 0,
       0, 0, 0, 0, 0, 0, 0, 0, 0, 0, 0, 0, 0, 0, -1, -1,
       -1, -1, -1, -1, -1, -1, -1, -1, -2, -2, -2, -2, -2, -2, -2, -2,
       -3, -3, -3, -3, -3, -3, -3, -3, -2, -2, -2, -2, -2, -1, -1, 0,
       0, 1, 1, 2, 2, 3, 4, 5, 6, 6, 7, 8, 9, 10, 11, 12,
       13, 15, 16, 17, 18, 19, 20, 21, 22, 24, 25, 26, 27, 28, 29, 30,
       31, 32, 33, 35, 36, 37, 38, 39, 40, 41, 42, 43, 44, 45, 46, 47,
       48, 49, 50, 51, 52, 53, 54, 55, 56, 57, 58, 59, 60, 61, 62, 63,
       64 >>

\* gelu(x) == 0.5 * x * (1 + tanh(sqrt(2 / pi) * (x + 0.044715 * x^3))):
\* x above 4 and 0 below -4, to the nearest multiple of 1 / FX.
gelu(x) ==
    IF x >= 4 * FX THEN x
    ELSE IF x <= -4 * FX THEN 0
    ELSE GeluTable[x + 4 * FX + 1]

\* np.tanh on -3 .. 3 in steps of 1 / FX, to the nearest multiple of 1 / FX:
\* TanhTable[k + 3 * FX + 1] is tanh(k / FX).
TanhTable ==
    << -16, -16, -16, -16, -16, -16, -16, -16, -16, -16, -16, -16, -16, -16, -16, -15,
       -15, -15, -15, -15, -15, -15, -15, -15, -14, -14, -14, -14, -14, -13, -13, -13,
       -12, -12, -11, -11, -10, -10, -9, -8, -7, -7, -6, -5, -4, -3, -2, -1,
       0, 1, 2, 3, 4, 5, 6, 7, 7, 8, 9, 10, 10, 11, 11, 12,
       12, 13, 13, 13, 14, 14, 14, 14, 14, 15, 15, 15, 15, 15, 15, 15,
       15, 15, 16, 16, 16, 16, 16, 16, 16, 16, 16, 16, 16, 16, 16, 16,
       16 >>

\* np.tanh, of the pooler line that bert leaves commented out: 1 above 3
\* and -1 below -3, to the nearest multiple of 1 / FX.
tanhFx(x) ==
    IF x >= 3 * FX THEN FX
    ELSE IF x <= -3 * FX THEN -FX
    ELSE TanhTable[x + 3 * FX + 1]

\* ------------------------------------------------------------- arrays

Err(kind, key) == [err |-> kind, key |-> key]

IsErr(t) == "err" \in DOMAIN t

ValueError == Err("ValueError", "")

IndexError == Err("IndexError", "")

Mat(r, c, v) == [r |-> r, c |-> c, v |-> v]

\* The array of shape (r, c) whose entry (i, j) is F(i, j).
MatOf(r, c, F(_, _)) == Mat(r, c, [i \in 1..r |-> [j \in 1..c |-> F(i, j)]])

\* A 1-d array as it broadcasts against a 2-d one: a single row.
AsRow(vec) == Mat(1, Len(vec), <<vec>>)

\* numpy's broadcasting of two axis lengths: equal, or one of them 1.
BroadcastLen(m, n) == IF m = n THEN m ELSE IF m = 1 THEN n ELSE IF n = 1 THEN m ELSE -1

\* An elementwise operation of two 2-d arrays, with numpy's broadcasting.
Elementwise(Op(_, _), a, b) ==
    IF IsErr(a) THEN a
    ELSE IF IsErr(b) THEN b
    ELSE LET r == BroadcastLen(a.r, b.r)
             c == BroadcastLen(a.c, b.c)
         IN  IF r < 0 \/ c < 0 THEN ValueError
             ELSE MatOf(r, c, LAMBDA i, j :
                      Op(a.v[IF a.r = 1 THEN 1 ELSE i][IF a.c = 1 THEN 1 ELSE j],
                         b.v[IF b.r = 1 THEN 1 ELSE i][IF b.c = 1 THEN 1 ELSE j]))

Plus(a, b) == a + b

Minus(a, b) == a - b

\* a + b
Add(a, b) == Elementwise(Plus, a, b)

\* a - b
Sub(a, b) == Elementwise(Minus, a, b)

\* a * b
Mul(a, b) == Elementwise(MulFx, a, b)

\* a / b
Div(a, b) == Elementwise(DivFx, a, b)

\* An elementwise function of one array.
Map(F(_), a) == IF IsErr(a) THEN a ELSE MatOf(a.r, a.c, LAMBDA i, j : F(a.v[i][j]))

\* a.T
Transpose(a) == MatOf(a.c, a.r, LAMBDA i, j : a.v[j][i])

\* a @ b: a ValueError unless a's columns are as many as b's rows.
MatMul(a, b) ==
    IF IsErr(a) THEN a
    ELSE IF IsErr(b) THEN b
    ELSE IF a.c # b.r THEN ValueError
    ELSE MatOf(a.r, b.c, LAMBDA i, j :
             SumSeq([k \in 1..a.c |-> a.v[i][k] * b.v[k][j]]) \div FX)

\* Columns lo .. hi of a, as an array of its own.
Cols(a, lo, hi) == MatOf(a.r, hi - lo + 1, LAMBDA i, j : a.v[i][lo + j - 1])

\* np.array_split in place of np.split: the first a.c % n parts are one
\* column wider, and nothing is raised.
ArraySplit(a, n) ==
    IF IsErr(a) THEN a
    ELSE LET w == a.c \div n
             wide == a.c % n
             lo(k) == (k - 1) * w + (IF k - 1 < wide THEN k - 1 ELSE wide) + 1
         IN  [parts |-> [k \in 1..n |-> Cols(a, lo(k), lo(k + 1) - 1)]]

\* np.split(a, n, axis=-1): n arrays of equal width, a ValueError when the
\* width is not a multiple of n.
Split(a, n) ==
    IF IsErr(a) THEN a
    ELSE IF a.c % n # 0 THEN ValueError
    ELSE LET w == a.c \div n
         IN  [parts |-> [k \in 1..n |-> Cols(a, (k - 1) * w + 1, k * w)]]

RECURSIVE ConcatAll(_)
ConcatAll(rows) == IF rows = <<>> THEN <<>> ELSE Head(rows) \o ConcatAll(Tail(rows))

\* np.hstack of 2-d arrays: a ValueError unless they have as many rows.
HStack(arrays) ==
    IF \E k \in 1..Len(arrays) : arrays[k].r # arrays[1].r THEN ValueError
    ELSE Mat(arrays[1].r,
             SumSeq([k \in 1..Len(arrays) |-> arrays[k].c]),
             [i \in 1..arrays[1].r |->
                 ConcatAll([k \in 1..Len(arrays) |-> arrays[k].v[i]])])

\* np.mean(a, axis=-1, keepdims=True)
MeanLast(a) == MatOf(a.r, 1, LAMBDA i, j : DivFx(SumSeq(a.v[i]), a.c * FX))

\* np.var(a, axis=-1, keepdims=True): the mean of the squared deviations.
VarLast(a) ==
    LET d == Map(LAMBDA e : MulFx(e, e), Sub(a, MeanLast(a)))
    IN  MeanLast(d)

\* np.max(a, axis=-1, keepdims=True)
MaxLast(a) == MatOf(a.r, 1, LAMBDA i, j : MaxSeq(a.v[i]))

\* np.sum(a, axis=-1, keepdims=True)
SumLast(a) == MatOf(a.r, 1, LAMBDA i, j : SumSeq(a.v[i]))

\* ------------------------------------------------- the forward pass

\* eps=1e-12 of layer_norm: below the resolution, it is kept as the least
\* positive number, so that the divisor is positive as it is in the code.
eps == 1

\* exp_x = np.exp(x - np.max(x, axis=-1, keepdims=True))
\* return exp_x / np.sum(exp_x, axis=-1, keepdims=True)
softmax(x) ==
    LET exp_x == Map(ExpFx, Sub(x, MaxLast(x)))
    IN  Div(exp_x, SumLast(exp_x))

\* mean = np.mean(x, axis=-1, keepdims=True)
\* variance = np.var(x, axis=-1, keepdims=True)
\* return g * (x - mean) / np.sqrt(variance + eps) + b
layer_norm(x, g, b) ==
    IF IsErr(x) THEN x
    ELSE LET mean == MeanLast(x)
             variance == VarLast(x)
         IN  Add(Div(Mul(AsRow(g), Sub(x, mean)),
                     Map(LAMBDA e : SqrtFx(e + eps), variance)),
                 AsRow(b))

\* return x @ w + b
linear(x, w, b) == Add(MatMul(x, w), AsRow(b))

\* return linear(gelu(linear(x, **c_fc)), **c_proj)
ffn(x, c_fc, c_proj) ==
    linear(Map(gelu, linear(x, c_fc.w, c_fc.b)), c_proj.w, c_proj.b)

\* return softmax(q @ k.T / np.sqrt(q.shape[-1])) @ v
attention(q, k, v) ==
    LET scale == Isqrt(q.c * FX * FX)
        scores == Map(LAMBDA e : DivFx(e, scale), MatMul(q, Transpose(k)))
    IN  MatMul(softmax(scores), v)

\* The heads laid out head by head: np.split(x, n_head, axis=-1), each
\* chunk split into its q, k and v.
qkv_heads_interleaved(x, n_head) ==
    LET chunks == Split(x, n_head)
    IN  IF IsErr(chunks) THEN chunks
        ELSE LET thirds == [h \in 1..n_head |-> Split(chunks.parts[h], 3)]
             IN  IF IsErr(thirds[1]) THEN thirds[1]
                 ELSE [parts |-> [t \in 1..3 |-> [h \in 1..n_head |-> thirds[h].parts[t]]]]

\* qkv_heads: np.split(x, 3, axis=-1), each third split into n_head heads.
\* An exception of either split leaves mha.
qkv_heads(x, n_head) ==
    LET qkv == Split(x, 3)
    IN  IF IsErr(qkv) THEN qkv
        ELSE LET heads == [t \in 1..3 |-> Split(qkv.parts[t], n_head)]
             IN  IF IsErr(heads[1]) THEN heads[1]
                 ELSE [parts |-> [t \in 1..3 |-> heads[t].parts]]

\* out_heads = [attention(q, k, v) for q, k, v in zip(*qkv_heads)]
out_heads(heads) ==
    [h \in 1..Len(heads[1]) |-> attention(heads[1][h], heads[2][h], heads[3][h])]

\* x = linear(x, **c_attn); the heads; x = linear(np.hstack(out_heads), **c_proj)
mha(x, c_attn, c_proj, n_head) ==
    LET y == linear(x, c_attn.w, c_attn.b)
    IN  IF IsErr(y) THEN y
        ELSE LET heads == qkv_heads(y, n_head)
             IN  IF IsErr(heads) THEN heads
                 ELSE linear(HStack(out_heads(heads.parts)), c_proj.w, c_proj.b)

\* x = layer_norm(x + mha(x, **attn, n_head=n_head), **ln_1)
attn_sublayer(x, attn, ln_1, n_head) ==
    layer_norm(Add(x, mha(x, attn.c_attn, attn.c_proj, n_head)), ln_1.g, ln_1.b)

\* Pre-norm: x = x + ffn(layer_norm(x, **ln_2), **mlp)
ffn_sublayer_prenorm(x, mlp, ln_2) ==
    Add(x, ffn(layer_norm(x, ln_2.g, ln_2.b), mlp.c_fc, mlp.c_proj))

\* x = layer_norm(x + ffn(x, **mlp), **ln_2)
ffn_sublayer(x, mlp, ln_2) ==
    layer_norm(Add(x, ffn(x, mlp.c_fc, mlp.c_proj)), ln_2.g, ln_2.b)

\* transformer_block: its two lines, and return x.
transformer_block(x, mlp, attn, ln_1, ln_2, n_head) ==
    ffn_sublayer(attn_sublayer(x, attn, ln_1, n_head), mlp, ln_2)

\* ------------------------------------------------- the weight store

\* n_layers = 6
n_layers == 6

\* prefix = ""
prefix == ""

\* The per-layer names the loader reads, after "encoder.layer.{i}", in the
\* order in which it reads them.
LayerSuffixes ==
    << ".attention.self.query.weight", ".attention.self.query.bias",
       ".attention.self.key.weight", ".attention.self.key.bias",
       ".attention.self.value.weight", ".attention.self.value.bias",
       ".attention.output.dense.weight", ".attention.output.dense.bias",
       ".attention.output.LayerNorm.weight", ".attention.output.LayerNorm.bias",
       ".intermediate.dense.weight", ".intermediate.dense.bias",
       ".output.dense.weight", ".output.dense.bias",
       ".output.LayerNorm.weight", ".output.LayerNorm.bias" >>

\* f"{prefix}encoder.layer.{i}{suffix}"
LayerKey(i, suffix) == prefix \o "encoder.layer." \o ToString(i) \o suffix

EmbeddingKeys ==
    << prefix \o "embeddings.word_embeddings.weight",
       prefix \o "embeddings.position_embeddings.weight",
       prefix \o "embeddings.token_type_embeddings.weight",
       prefix \o "embeddings.LayerNorm.weight",
       prefix \o "embeddings.LayerNorm.bias" >>

PoolerKeys == << "pooler.dense.weight", "pooler.dense.bias" >>

\* Every name the loader reads, in the order in which it reads them.
ExpectedKeys ==
    EmbeddingKeys
    \o ConcatAll([i \in 1..n_layers |->
                    [k \in 1..Len(LayerSuffixes) |-> LayerKey(i - 1, LayerSuffixes[k])]])
    \o PoolerKeys

\* The shapes of a weight store: the rows of the word, position and
\* token-type tables and the width of the intermediate layer.  The hidden
\* width h is drawn per store.
Dims == [vocab |-> 2, pos |-> 2, types |-> 2, inter |-> 3]

\* The (t, i, j) entry of the generated store number seed: a number in
\* -8 / FX .. 8 / FX that differs from tensor to tensor.
Gen(seed, t, i, j) ==
    ((seed * 31 + t * 7 + i * 5 + j * 11 + i * j * 3 + t * i + j * j) % 17) - 8

GenMat(seed, t, r, c) == MatOf(r, c, LAMBDA i, j : Gen(seed, t, i, j))

GenVec(seed, t, n) == [j \in 1..n |-> Gen(seed, t, 1, j)]

\* A LayerNorm weight: near 1.
GenGain(seed, t, n) == [j \in 1..n |-> FX + Gen(seed, t, 2, j)]

\* The tensor stored under ExpectedKeys[t] in store number seed, of hidden
\* width h: dense weights are stored [out_dim, in_dim].
GenTensor(seed, h, t) ==
    LET u == IF t <= 5 \/ t > 5 + n_layers * 16 THEN 0 ELSE ((t - 6) % 16) + 1
    IN  IF t = 1 THEN GenMat(seed, t, Dims.vocab, h)
        ELSE IF t = 2 THEN GenMat(seed, t, Dims.pos, h)
        ELSE IF t = 3 THEN GenMat(seed, t, Dims.types, h)
        ELSE IF t = 4 THEN GenGain(seed, t, h)
        ELSE IF t = 5 THEN GenVec(seed, t, h)
        ELSE IF u \in {1, 3, 5, 7} THEN GenMat(seed, t, h, h)
        ELSE IF u \in {9, 15} THEN GenGain(seed, t, h)
        ELSE IF u = 11 THEN GenMat(seed, t, Dims.inter, h)
        ELSE IF u = 12 THEN GenVec(seed, t, Dims.inter)
        ELSE IF u = 13 THEN GenMat(seed, t, h, Dims.inter)
        ELSE IF u \in {2, 4, 6, 8, 10, 14, 16} THEN GenVec(seed, t, h)
        ELSE IF t = Len(ExpectedKeys) - 1 THEN GenMat(seed, t, h, h)
        ELSE GenVec(seed, t, h)

\* The position in ExpectedKeys of every expected name.
KeyIndex ==
    [key \in {ExpectedKeys[t] : t \in 1..Len(ExpectedKeys)} |->
        CHOOSE t \in 1..Len(ExpectedKeys) : ExpectedKeys[t] = key]

\* A complete weight store, as torch.load returns it: every expected name
\* with its tensor.
GenStore(seed, h) == [key \in DOMAIN KeyIndex |-> GenTensor(seed, h, KeyIndex[key])]

\* The store without the names in `absent`.
Without(store, absent) == [key \in DOMAIN store \ absent |-> store[key]]

\* ----------------------------------------------------------- the loader

\* The positions in ExpectedKeys of the names model[...] does not hold.
MissingKeys(model) == {t \in 1..Len(ExpectedKeys) : ExpectedKeys[t] \notin DOMAIN model}

\* np.hstack((q["w"], k["w"], v["w"]))
qkv_weight_untransposed(q, k, v) == HStack(<<q, k, v>>)

\* np.hstack((q["w"].T, k["w"].T, v["w"].T))
qkv_weight(q, k, v) == HStack(<<Transpose(q), Transpose(k), Transpose(v)>>)

\* np.hstack((q["b"], k["b"], v["b"]))
qkv_bias(q, k, v) == q \o k \o v

\* The block the loop body builds for layer i (0-based).
load_block(model, i) ==
    LET at(suffix) == model[LayerKey(i, suffix)]
        q == [w |-> at(".attention.self.query.weight"), b |-> at(".attention.self.query.bias")]
        k == [w |-> at(".attention.self.key.weight"), b |-> at(".attention.self.key.bias")]
        v == [w |-> at(".attention.self.value.weight"), b |-> at(".attention.self.value.bias")]
        c_attn == [w |-> qkv_weight(q.w, k.w, v.w), b |-> qkv_bias(q.b, k.b, v.b)]
        c_proj == [w |-> Transpose(at(".attention.output.dense.weight")),
                   b |-> at(".attention.output.dense.bias")]
        attn == [c_attn |-> c_attn, c_proj |-> c_proj]
        ln_1 == [g |-> at(".attention.output.LayerNorm.weight"),
                 b |-> at(".attention.output.LayerNorm.bias")]
        mlp_c_fc == [w |-> Transpose(at(".intermediate.dense.weight")),
                     b |-> at(".intermediate.dense.bias")]
        mlp_c_proj == [w |-> Transpose(at(".output.dense.weight")),
                       b |-> at(".output.dense.bias")]
        mlp == [c_fc |-> mlp_c_fc, c_proj |-> mlp_c_proj]
        ln_2 == [g |-> at(".output.LayerNorm.weight"), b |-> at(".output.LayerNorm.bias")]
    IN  [mlp |-> mlp, attn |-> attn, ln_1 |-> ln_1, ln_2 |-> ln_2]

\* A loader whose exception does not say which name was absent.
key_error_unnamed(model) == Err("KeyError", "")

\* What model[key] raises for the first name read that the store does not
\* hold: KeyError(key).
key_error(model) ==
    LET absent == MissingKeys(model)
    IN  Err("KeyError", ExpectedKeys[CHOOSE t \in absent : \A u \in absent : t <= u])

\* load_encoder_hparams_and_params, from the store torch.load returned: the
\* first model[key] of an absent key raises KeyError(key); otherwise the
\* pair (hparams, params).
load_encoder_hparams_and_params(model) ==
    IF MissingKeys(model) # {}
    THEN key_error(model)
    ELSE [hparams |-> [n_head |-> 12, n_ctx |-> 1024],
              params |->
                 [ln_0 |-> [g |-> model[prefix \o "embeddings.LayerNorm.weight"],
                            b |-> model[prefix \o "embeddings.LayerNorm.bias"]],
                  wte |-> model[prefix \o "embeddings.word_embeddings.weight"],
                  wpe |-> model[prefix \o "embeddings.position_embeddings.weight"],
                  wtte |-> model[prefix \o "embeddings.token_type_embeddings.weight"],
                  blocks |-> [i \in 1..n_layers |-> load_block(model, i - 1)],
                  pooler |-> [w |-> Transpose(model["pooler.dense.weight"]),
                              b |-> model["pooler.dense.bias"]]]]

\* ------------------------------------------------ embedding and pooling

\* table[ids]: the rows of table at the (0-based) ids, a negative id
\* counting from the end, an IndexError when an id is not a row of the table.
Take(table, ids) ==
    IF \E p \in 1..Len(ids) : ids[p] < -table.r \/ ids[p] >= table.r THEN IndexError
    ELSE Mat(Len(ids), table.c, [p \in 1..Len(ids) |-> table.v[(ids[p] % table.r) + 1]])

\* The whole position table added, not its first len(inputs) rows.
embed_whole_table(inputs, segment_ids, wte, wpe, wtte) ==
    Add(Add(Take(wte, inputs), wpe), Take(wtte, segment_ids))

\* x = wte[inputs] + wpe[range(len(inputs))] + wtte[segment_ids]
embed(inputs, segment_ids, wte, wpe, wtte) ==
    Add(Add(Take(wte, inputs), Take(wpe, [p \in 1..Len(inputs) |-> p - 1])),
        Take(wtte, segment_ids))

\* np.mean(x, axis=0): the mean of every column, NaN (0 / 0) for no rows.
MeanFirst(x) == [j \in 1..x.c |-> DivFx(SumSeq([i \in 1..x.r |-> x.v[i][j]]), x.r * FX)]

\* np.linalg.norm(o): NaN when an entry is.
Norm(o) ==
    IF \E j \in 1..Len(o) : o[j] = NaN THEN NaN
    ELSE Isqrt(SumSeq([j \in 1..Len(o) |-> o[j] * o[j]]))

\* o = np.mean(x, axis=0); return o / np.linalg.norm(o).  Nothing is
\* raised: a NaN or a zero norm gives NaN entries.
mean_pooling_and_normalization(x) ==
    LET o == MeanFirst(x)
        n == Norm(o)
    IN  [j \in 1..Len(o) |-> IF o[j] = NaN \/ n = NaN THEN NaN ELSE DivFx(o[j], n)]

\* ------------------------------------------------------- the program

VARIABLES
    pc,            \* where the module or the call under study stands
    model,         \* the weight store torch.load returned
    hparams,       \* the loader's first result, None before it returns
    params,        \* the loader's second result, None before it returns
    todo,          \* the sentences still to encode
    inputs,        \* bert's token ids, <<>> before the first call
    segment_ids,   \* bert's segment ids
    n_head,        \* bert's n_head, 0 before the first call
    x,             \* bert's local x
    layer,         \* the 1-based position of `for block in blocks`
    logits,        \* the value bert returned
    embeddings,    \* the module's list of sentence embeddings
    result,        \* the printed similarity matrix
    error,         \* the exception that ended the run, None if none
    steps          \* history: what every block of the current call read and produced

vars == << pc, model, hparams, params, todo, inputs, segment_ids, n_head, x,
           layer, logits, embeddings, result, error, steps >>

None == [none |-> TRUE]

\* An exception leaves the module: nothing else runs.
Raise(e) ==
    /\ error' = e
    /\ pc' = "failed"

\* hparams, params = load_encoder_hparams_and_params(model_path=...)
Load ==
    /\ pc = "load"
    /\ LET r == load_encoder_hparams_and_params(model)
       IN  IF IsErr(r)
           THEN /\ Raise(r)
                /\ UNCHANGED << hparams, params >>
           ELSE /\ hparams' = r.hparams
                /\ params' = r.params
                /\ pc' = "sentence"
                /\ UNCHANGED error
    /\ UNCHANGED << model, todo, inputs, segment_ids, n_head, x, layer, logits,
                    embeddings, result, steps >>

\* x = wpe[:len(inputs)]; x += wte[inputs]; x += wtte[segment_ids]: the
\* slice is a view, and the sum is written into the position table.
EmbedInPlace ==
    /\ pc = "embed"
    /\ LET e == embed(inputs, segment_ids, params.wte, params.wpe, params.wtte)
       IN  IF IsErr(e)
           THEN /\ Raise(e)
                /\ UNCHANGED << x, params >>
           ELSE /\ x' = e
                /\ params' = [params EXCEPT !.wpe.v =
                                 [i \in 1..params.wpe.r |->
                                     IF i <= e.r THEN e.v[i] ELSE params.wpe.v[i]]]
                /\ pc' = "ln_0"
                /\ UNCHANGED error
    /\ UNCHANGED << model, hparams, todo, inputs, segment_ids, n_head,
                    layer, logits, embeddings, result, steps >>

\* x = wte[inputs] + wpe[range(len(inputs))] + wtte[segment_ids]
Embed ==
    /\ pc = "embed"
    /\ LET e == embed(inputs, segment_ids, params.wte, params.wpe, params.wtte)
       IN  IF IsErr(e)
           THEN /\ Raise(e)
                /\ UNCHANGED x
           ELSE /\ x' = e
                /\ pc' = "ln_0"
                /\ UNCHANGED error
    /\ UNCHANGED << model, hparams, params, todo, inputs, segment_ids, n_head,
                    layer, logits, embeddings, result, steps >>

\* x = layer_norm(x, **ln_0), and the loop over the blocks begins.
InputNorm ==
    /\ pc = "ln_0"
    /\ x' = layer_norm(x, params.ln_0.g, params.ln_0.b)
    /\ layer' = 1
    /\ pc' = IF Len(params.blocks) = 0 THEN "return" ELSE "attn"
    /\ UNCHANGED << model, hparams, params, todo, inputs, segment_ids, n_head,
                    logits, embeddings, result, error, steps >>

\* for block in reversed(blocks)
reversed_block(blocks, position) == blocks[Len(blocks) + 1 - position]

\* for block in blocks: the block of the loop's position.
current_block(blocks, position) == blocks[position]

\* The first line of transformer_block, for the block the loop stands at.
AttnStep ==
    /\ pc = "attn"
    /\ LET block == current_block(params.blocks, layer)
           a == mha(x, block.attn.c_attn, block.attn.c_proj, n_head)
           y == attn_sublayer(x, block.attn, block.ln_1, n_head)
       IN  IF IsErr(y)
           THEN /\ Raise(y)
                /\ UNCHANGED << x, steps >>
           ELSE /\ x' = y
                /\ steps' = Append(steps, [block |-> layer, in |-> x, attn |-> a,
                                           mid |-> y, out |-> None])
                /\ pc' = "ffn"
                /\ UNCHANGED error
    /\ UNCHANGED << model, hparams, params, todo, inputs, segment_ids, n_head,
                    layer, logits, embeddings, result >>

\* The second line of transformer_block and its return; the loop goes on.
FfnStep ==
    /\ pc = "ffn"
    /\ LET block == current_block(params.blocks, layer)
           y == ffn_sublayer(x, block.mlp, block.ln_2)
       IN  IF IsErr(y)
           THEN /\ Raise(y)
                /\ UNCHANGED << x, steps, layer >>
           ELSE /\ x' = y
                /\ steps' = [steps EXCEPT ![Len(steps)].out = y]
                /\ layer' = layer + 1
                /\ pc' = IF layer = Len(params.blocks) THEN "return" ELSE "attn"
                /\ UNCHANGED error
    /\ UNCHANGED << model, hparams, params, todo, inputs, segment_ids, n_head,
                    logits, embeddings, result >>

\* return np.tanh(linear(x, **pooler))
bert_pooled(v, pooler) == Map(tanhFx, linear(v, pooler.w, pooler.b))

\* The value bert returns, as its caller receives it.
bert_return(v, pooler) == v

\* return x
Return ==
    /\ pc = "return"
    /\ logits' = bert_return(x, params.pooler)
    /\ pc' = "pool"
    /\ UNCHANGED << model, hparams, params, todo, inputs, segment_ids, n_head, x,
                    layer, embeddings, result, error, steps >>

\* embeddings.append(mean_pooling_and_normalization(logits))
Pool ==
    /\ pc = "pool"
    /\ embeddings' = Append(embeddings, mean_pooling_and_normalization(logits))
    /\ pc' = "sentence"
    /\ UNCHANGED << model, hparams, params, todo, inputs, segment_ids, n_head, x,
                    layer, logits, result, error, steps >>

\* The dot product of two embeddings: NaN when an entry is.
Dot(u, v) ==
    IF \E k \in 1..Len(u) : u[k] = NaN \/ v[k] = NaN THEN NaN
    ELSE SumSeq([k \in 1..Len(u) |-> u[k] * v[k]]) \div FX

\* embeddings = np.vstack(embeddings); print(embeddings @ embeddings.T)
Report ==
    /\ pc = "sentence"
    /\ todo = 0
    /\ result' = MatOf(Len(embeddings), Len(embeddings),
                       LAMBDA i, j : Dot(embeddings[i], embeddings[j]))
    /\ pc' = "done"
    /\ UNCHANGED << model, hparams, params, todo, inputs, segment_ids, n_head, x,
                    layer, logits, embeddings, error, steps >>

\* ---------------------------------------------------- the module's run

\* The sentences the module encodes (it lists four).
MaxSentences == 2

\* The weight stores a run may find: the hidden widths (n_head = 12 divides
\* the first only), the store numbers, and what is absent: up to
\* MaxMissing names that the loader reads one after the other.
MaxMissing == 1

ProgramWidths == {12, 8}

\* The sets of at most MaxMissing consecutive expected names.
AbsentSets ==
    {{}} \cup { {ExpectedKeys[t] : t \in (first..first + n - 1) \cap (1..Len(ExpectedKeys))} :
                   first \in 1..Len(ExpectedKeys), n \in 1..MaxMissing }

ProgramSeeds == {1}

\* What the tokenizer may return for a sentence: ids of the word table, an
\* id past its end, and more ids than the position table has rows.
Corpus == { <<0>>, <<1, 0>>, <<2>>, <<0, 1, 1>> }

\* for sentence in sentences: sentence_ids = tokenizer.encode(sentence).ids
\* and the call bert(sentence_ids, [0] * len(sentence_ids), **params,
\* n_head=hparams["n_head"]).
Encode ==
    /\ pc = "sentence"
    /\ todo > 0
    /\ \E sentence_ids \in Corpus :
          /\ inputs' = sentence_ids
          /\ segment_ids' = [p \in 1..Len(sentence_ids) |-> 0]
    /\ n_head' = hparams.n_head
    /\ todo' = todo - 1
    /\ steps' = <<>>
    /\ pc' = "embed"
    /\ UNCHANGED << model, hparams, params, x, layer, logits, embeddings, result,
                    error >>

Idle ==
    /\ hparams = None
    /\ params = None
    /\ inputs = <<>>
    /\ segment_ids = <<>>
    /\ n_head = 0
    /\ x = None
    /\ layer = 0
    /\ logits = None
    /\ embeddings = <<>>
    /\ result = None
    /\ error = None
    /\ steps = <<>>

Init ==
    /\ pc = "load"
    /\ \E seed \in ProgramSeeds, h \in ProgramWidths :
          \E absent \in AbsentSets : model = Without(GenStore(seed, h), absent)
    /\ todo = MaxSentences
    /\ Idle

Next ==
    \/ Load
    \/ Encode
    \/ Embed
    \/ InputNorm
    \/ AttnStep
    \/ FfnStep
    \/ Return
    \/ Pool
    \/ Report

Spec == Init /\ [][Next]_vars

\* ------------------------------------------- bert called on its own

\* The longest token sequence passed (the position table has Dims.pos rows).
MaxLen == 3

CallWidths == {2, 3, 4}

CallHeads == {1, 2, 3}

CallSeeds == {1, 2}

\* A call bert(inputs, segment_ids, **params, n_head=n_head) with any
\* token ids (one of them past the word table), any segment ids and any
\* n_head, on the parameters loaded from a complete store.
Call ==
    /\ pc = "sentence"
    /\ todo > 0
    /\ \E len \in 1..MaxLen :
          \E ids \in [1..len -> 0..Dims.vocab], segs \in [1..len -> {0, 1}] :
             /\ inputs' = ids
             /\ segment_ids' = segs
    /\ \E n \in CallHeads : n_head' = n
    /\ todo' = todo - 1
    /\ steps' = <<>>
    /\ pc' = "embed"
    /\ UNCHANGED << model, hparams, params, x, layer, logits, embeddings, result,
                    error >>

InitCall ==
    /\ pc = "load"
    /\ \E seed \in CallSeeds, h \in CallWidths : model = GenStore(seed, h)
    /\ todo = 1
    /\ Idle

NextCall ==
    \/ Load
    \/ Call
    \/ Embed
    \/ InputNorm
    \/ AttnStep
    \/ FfnStep
    \/ Return
    \/ Pool

SpecCall == InitCall /\ [][NextCall]_vars

\* ------------------------- mean_pooling_and_normalization on its own

\* The most rows of a pooled array; it may have none.
MaxRows == 2

PoolWidths == {1, 2}

PoolEntries == {-FX, 0, FX}

InitPool ==
    /\ pc = "pool"
    /\ model = None
    /\ hparams = None
    /\ params = None
    /\ todo = 0
    /\ inputs = <<>>
    /\ segment_ids = <<>>
    /\ n_head = 0
    /\ x = None
    /\ layer = 0
    /\ \E r \in 0..MaxRows, c \in PoolWidths :
          \E v \in [1..r -> [1..c -> PoolEntries]] : logits = Mat(r, c, v)
    /\ embeddings = <<>>
    /\ result = None
    /\ error = None
    /\ steps = <<>>

NextPool == Pool

SpecPool == InitPool /\ [][NextPool]_vars

\* ------------------------------------------------------------ claims

\* The hidden width of the loaded parameters: a third of the width of the
\* first block's qkv projection.
hidden_dim == params.blocks[1].attn.c_attn.w.c \div 3

\* The run has got past the loader.
Loaded == params # None

\* C1: whenever one of the names the loader expects is absent from the
\* weight store, the loader fails with the missing-name error (Python's
\* KeyError) that names an expected name the store does not hold, and
\* returns no (hparams, params) pair; with every name present it returns.
C1_MissingKeyFails ==
    pc # "load" =>
       IF \E t \in 1..Len(ExpectedKeys) : ExpectedKeys[t] \notin DOMAIN model
       THEN /\ pc = "failed"
            /\ IsErr(error)
            /\ error.err = "KeyError"
            /\ \E t \in 1..Len(ExpectedKeys) : error.key = ExpectedKeys[t]
            /\ error.key \notin DOMAIN model
            /\ hparams = None
            /\ params = None
       ELSE /\ hparams # None
            /\ params # None
            /\ (IsErr(error) => error.err # "KeyError")

\* The loader has failed for an absent tensor of layer 3.
C1_Witness ==
    /\ pc = "failed"
    /\ IsErr(error)
    /\ error.err = "KeyError"
    /\ error.key = "encoder.layer.3.output.dense.bias"
    /\ params = None

\* C2: mha fails with the shape error (numpy's ValueError, from np.split)
\* and returns nothing whenever hidden_dim is not a multiple of n_head; when
\* it is a multiple, mha returns an array and no ValueError ends the call.
C2_HeadSplitError ==
    /\ pc = "attn" =>
          LET block == params.blocks[layer]
              r == mha(x, block.attn.c_attn, block.attn.c_proj, n_head)
          IN  IF hidden_dim % n_head # 0
              THEN IsErr(r) /\ r.err = "ValueError"
              ELSE ~IsErr(r)
    /\ (Loaded /\ n_head # 0 /\ pc \notin {"embed", "ln_0", "attn"}
           /\ ~(IsErr(error) /\ error.err = "IndexError")) =>
          IF hidden_dim % n_head # 0
          THEN /\ pc = "failed"
               /\ IsErr(error)
               /\ error.err = "ValueError"
               /\ steps = <<>>
          ELSE error = None

\* mha has failed on a hidden width of 3 split into 2 heads.
C2_Witness ==
    /\ pc = "failed"
    /\ IsErr(error)
    /\ error.err = "ValueError"
    /\ hidden_dim = 3
    /\ n_head = 2

\* The mean over the rows of the pooled array is the zero vector, or the
\* array has no rows.
ZeroMean(a) == a.r = 0 \/ \A j \in 1..a.c : SumSeq([i \in 1..a.r |-> a.v[i][j]]) = 0

\* C3, as claimed: once mean_pooling_and_normalization has run on an array
\* whose mean is the zero vector or that has no rows, an InvalidInputError
\* has been raised and no embedding with a NaN entry has been returned.
C3_ZeroMeanRaises ==
    (pc # "pool" /\ ZeroMean(logits)) =>
       /\ IsErr(error)
       /\ error.err = "InvalidInputError"
       /\ \A e \in 1..Len(embeddings) :
             \A j \in 1..Len(embeddings[e]) : embeddings[e][j] # NaN

\* The arguments of the call are a valid TokenSequence for the loaded
\* tables, and n_head divides the hidden width.
ValidCall ==
    /\ Len(inputs) = Len(segment_ids)
    /\ 1 <= Len(inputs)
    /\ Len(inputs) <= params.wpe.r
    /\ \A p \in 1..Len(inputs) : 0 <= inputs[p] /\ inputs[p] < params.wte.r
    /\ \A p \in 1..Len(segment_ids) : segment_ids[p] \in {0, 1}
    /\ hidden_dim % n_head = 0

\* a is an array of shape (r, c): r rows of c numbers.
HasShape(a, r, c) ==
    /\ a # None
    /\ ~IsErr(a)
    /\ a.r = r
    /\ a.c = c
    /\ Len(a.v) = r
    /\ \A i \in 1..r : Len(a.v[i]) = c

\* C4: for a valid token sequence of length L and n_head dividing
\* hidden_dim, bert raises nothing and x has shape [L, hidden_dim] after the
\* embedding sum, after the input layer norm and after each sub-layer of
\* every block, and so has the value bert returns.
C4_ShapeInvariance ==
    (Loaded /\ n_head # 0 /\ pc # "embed" /\ ValidCall) =>
       /\ error = None
       /\ HasShape(x, Len(inputs), hidden_dim)
       /\ \A k \in 1..Len(steps) :
             /\ HasShape(steps[k].in, Len(inputs), hidden_dim)
             /\ HasShape(steps[k].mid, Len(inputs), hidden_dim)
             /\ steps[k].out # None => HasShape(steps[k].out, Len(inputs), hidden_dim)
       /\ pc \in {"pool", "sentence", "done"} =>
             HasShape(logits, Len(inputs), hidden_dim)

\* bert has returned a [2, 4] array for two tokens and two heads.
C4_Witness ==
    /\ pc = "pool"
    /\ Len(inputs) = 2
    /\ n_head = 2
    /\ HasShape(logits, 2, 4)

\* The entries of the stored [out_dim, in_dim] weight, transposed.
IsTransposeOf(w, stored) ==
    /\ w.r = stored.c
    /\ w.c = stored.r
    /\ \A i \in 1..w.r : \A j \in 1..w.c : w.v[i][j] = stored.v[j][i]

\* Entry i of the loaded block list is built from the encoder.layer.{i-1}
\* tensors of the store.
BlockFromLayer(block, i) ==
    LET at(suffix) == model["encoder.layer." \o ToString(i - 1) \o suffix]
    IN  /\ block.attn.c_attn.b =
             at(".attention.self.query.bias") \o at(".attention.self.key.bias")
                \o at(".attention.self.value.bias")
        /\ IsTransposeOf(block.attn.c_proj.w, at(".attention.output.dense.weight"))
        /\ block.attn.c_proj.b = at(".attention.output.dense.bias")
        /\ block.ln_1.g = at(".attention.output.LayerNorm.weight")
        /\ block.ln_1.b = at(".attention.output.LayerNorm.bias")
        /\ IsTransposeOf(block.mlp.c_fc.w, at(".intermediate.dense.weight"))
        /\ block.mlp.c_fc.b = at(".intermediate.dense.bias")
        /\ IsTransposeOf(block.mlp.c_proj.w, at(".output.dense.weight"))
        /\ block.mlp.c_proj.b = at(".output.dense.bias")
        /\ block.ln_2.g = at(".output.LayerNorm.weight")
        /\ block.ln_2.b = at(".output.LayerNorm.bias")

\* C5: the loader's block list has 6 entries, entry i built from the
\* encoder.layer.i tensors; bert applies the blocks in the order 0, 1, ...,
\* each once: the k-th application is of block k, it reads the output of
\* the application before it (the first reads the input-layer-normed
\* embedding sum) and produces that block's output, and what bert returns
\* is the output of the application of the last block.
C5_BlocksInOrder ==
    Loaded =>
       /\ Len(params.blocks) = 6
       /\ \A i \in 1..6 : BlockFromLayer(params.blocks[i], i)
       /\ Len(steps) <= 6
       /\ \A k \in 1..Len(steps) :
             LET block == params.blocks[k]
             IN  /\ steps[k].block = k
                 /\ steps[k].in =
                       IF k = 1
                       THEN layer_norm(embed(inputs, segment_ids, params.wte,
                                             params.wpe, params.wtte),
                                       params.ln_0.g, params.ln_0.b)
                       ELSE steps[k - 1].out
                 /\ steps[k].out # None =>
                       steps[k].out = transformer_block(steps[k].in, block.mlp, block.attn,
                                                        block.ln_1, block.ln_2, n_head)
       /\ (n_head # 0 /\ pc \in {"return", "pool", "sentence", "done"}) =>
             /\ Len(steps) = 6
             /\ x = steps[6].out
             /\ pc # "return" => logits = steps[6].out

\* bert has returned after six block applications, the last of which
\* changed x.
C5_Witness ==
    /\ pc = "pool"
    /\ Len(steps) = 6
    /\ steps[6].block = 6
    /\ steps[6].out # steps[5].out
    /\ logits = steps[6].out

\* C6: once the loader has returned, no step changes params or hparams
\* (no array or entry of them, and nothing is added to them), however many
\* sentences are encoded.
C6_ParamsReadOnly ==
    [][pc # "load" => (params' = params /\ hparams' = hparams)]_vars

\* Two sentences have been encoded and the result printed, the parameters
\* still being the loaded ones.
C6_Witness ==
    /\ pc = "done"
    /\ Len(embeddings) = 2
    /\ embeddings[1] # embeddings[2]
    /\ params # None

\* v / ||v|| for v the mean over the rows of a, spelt out entry by entry.
UnitMean(a) ==
    LET o == [j \in 1..a.c |-> (SumSeq([i \in 1..a.r |-> a.v[i][j]]) * FX) \div (a.r * FX)]
        n == Isqrt(SumSeq([j \in 1..a.c |-> o[j] * o[j]]))
    IN  [j \in 1..a.c |-> IF n = 0 THEN NaN ELSE (o[j] * FX) \div n]

\* Pooler projections other than the loaded one: all zeros, and the loaded
\* one with its bias moved by 1.
OtherPoolers ==
    { [w |-> MatOf(params.pooler.w.r, params.pooler.w.c, LAMBDA i, j : 0),
       b |-> [j \in 1..Len(params.pooler.b) |-> 0]],
      [w |-> params.pooler.w,
       b |-> [j \in 1..Len(params.pooler.b) |-> params.pooler.b[j] + FX]] }

\* C7: the pooler projection is in the parameter tree (the stored weight
\* transposed, and the stored bias), but what bert returns is the output of
\* the last block unchanged, the same for any other pooler projection, and
\* the sentence embedding is the L2-normalized mean over the rows of it.
C7_PoolerUnused ==
    Loaded =>
       /\ IsTransposeOf(params.pooler.w, model["pooler.dense.weight"])
       /\ params.pooler.b = model["pooler.dense.bias"]
       /\ (n_head # 0 /\ pc \in {"pool", "sentence", "done"}) =>
             /\ Len(steps) = n_layers
             /\ logits = steps[n_layers].out
             /\ \A q \in OtherPoolers : bert_return(steps[n_layers].out, q) = logits
       /\ (n_head # 0 /\ pc \in {"sentence", "done"}) =>
             embeddings[Len(embeddings)] = UnitMean(steps[n_layers].out)

\* A sentence embedding has been computed from the last block's output,
\* which a pooler projection would have changed.
C7_Witness ==
    /\ pc = "sentence"
    /\ Len(embeddings) = 1
    /\ Len(steps) = n_layers
    /\ embeddings[1] = UnitMean(steps[n_layers].out)
    /\ bert_pooled(steps[n_layers].out, params.pooler) # steps[n_layers].out

\* C8: for every layer the qkv projection's weight is [hidden_dim,
\* 3 * hidden_dim], the transposed query, key and value weights side by side
\* in that order, and its bias the three biases in that order, so that the
\* three equal chunks of linear(x, c_attn) are x @ Wq^T + bq, x @ Wk^T + bk
\* and x @ Wv^T + bv for every x a block has read; every other stored
\* [out_dim, in_dim] weight is in the tree transposed.
C8_QkvConcatenation ==
    Loaded =>
       /\ IsTransposeOf(params.pooler.w, model["pooler.dense.weight"])
       /\ \A i \in 1..n_layers :
             LET at(suffix) == model["encoder.layer." \o ToString(i - 1) \o suffix]
                 Wq == at(".attention.self.query.weight")
                 Wk == at(".attention.self.key.weight")
                 Wv == at(".attention.self.value.weight")
                 bq == at(".attention.self.query.bias")
                 bk == at(".attention.self.key.bias")
                 bv == at(".attention.self.value.bias")
                 h == Wq.c
                 block == params.blocks[i]
                 c_attn == block.attn.c_attn
             IN  /\ c_attn.w.r = h
                 /\ c_attn.w.c = 3 * h
                 /\ Len(c_attn.w.v) = h
                 /\ \A a \in 1..h :
                       /\ Len(c_attn.w.v[a]) = 3 * h
                       /\ \A o \in 1..h :
                             /\ c_attn.w.v[a][o] = Wq.v[o][a]
                             /\ c_attn.w.v[a][h + o] = Wk.v[o][a]
                             /\ c_attn.w.v[a][2 * h + o] = Wv.v[o][a]
                 /\ Len(c_attn.b) = 3 * h
                 /\ \A o \in 1..h :
                       /\ c_attn.b[o] = bq[o]
                       /\ c_attn.b[h + o] = bk[o]
                       /\ c_attn.b[2 * h + o] = bv[o]
                 /\ IsTransposeOf(block.attn.c_proj.w, at(".attention.output.dense.weight"))
                 /\ IsTransposeOf(block.mlp.c_fc.w, at(".intermediate.dense.weight"))
                 /\ IsTransposeOf(block.mlp.c_proj.w, at(".output.dense.weight"))
                 /\ \A k \in 1..Len(steps) :
                       LET y == linear(steps[k].in, c_attn.w, c_attn.b)
                       IN  /\ Cols(y, 1, h) = linear(steps[k].in, Transpose(Wq), bq)
                           /\ Cols(y, h + 1, 2 * h) = linear(steps[k].in, Transpose(Wk), bk)
                           /\ Cols(y, 2 * h + 1, 3 * h) = linear(steps[k].in, Transpose(Wv), bv)

\* A block has read an x of two rows through a qkv projection whose query
\* weight is not symmetric.
C8_Witness ==
    /\ Loaded
    /\ Len(steps) >= 1
    /\ steps[1].in.r = 2
    /\ model["encoder.layer.0.attention.self.query.weight"].v[1][2]
          # model["encoder.layer.0.attention.self.query.weight"].v[2][1]
    /\ params.blocks[1].attn.c_attn.w.c = 12

\* C9: in every block the attention sub-layer and its residual read the
\* block's input x and are normalized with ln_1, giving x1; the
\* feed-forward sub-layer and its residual read x1 and are normalized with
\* ln_2, giving the block's output: normalization follows each residual
\* addition.
C9_PostNorm ==
    Loaded =>
       \A k \in 1..Len(steps) :
          LET block == params.blocks[steps[k].block]
              x0 == steps[k].in
              x1 == steps[k].mid
          IN  /\ x1 = layer_norm(Add(x0, mha(x0, block.attn.c_attn, block.attn.c_proj,
                                             n_head)),
                                 block.ln_1.g, block.ln_1.b)
              /\ steps[k].out # None =>
                    steps[k].out = layer_norm(Add(x1, ffn(x1, block.mlp.c_fc,
                                                          block.mlp.c_proj)),
                                              block.ln_2.g, block.ln_2.b)

\* A block has returned; its two norms differ, and each sub-layer changed x.
C9_Witness ==
    /\ Len(steps) >= 1
    /\ steps[1].out # None
    /\ steps[1].mid # steps[1].in
    /\ steps[1].out # steps[1].mid
    /\ params.blocks[1].ln_1 # params.blocks[1].ln_2

\* softmax(q @ k.T / sqrt(head_dim)) @ v with every position attending to
\* every position, spelt out entry by entry.
FullAttention(q, k, v) ==
    LET positions == 1..k.r
        scale == Isqrt(q.c * FX * FX)
        score(i, j) == ((SumSeq([c \in 1..q.c |-> q.v[i][c] * k.v[j][c]]) \div FX) * FX)
                          \div scale
        top(i) == CHOOSE m \in {score(i, j) : j \in positions} :
                     \A j \in positions : m >= score(i, j)
        total(i) == SumSeq([j \in positions |-> ExpFx(score(i, j) - top(i))])
        weight(i, j) == (ExpFx(score(i, j) - top(i)) * FX) \div total(i)
    IN  MatOf(q.r, v.c, LAMBDA i, c :
           SumSeq([j \in positions |-> weight(i, j) * v.v[j][c]]) \div FX)

\* C10: whenever mha returns, head h (1-based here) has attended with
\* columns (h-1)*head_dim+1 .. h*head_dim of Q, of K and of V, every
\* position attending to every position; the head outputs are side by side
\* in head order before the output projection; and the result has the shape
\* of the input.
C10_HeadColumns ==
    Loaded =>
       \A s \in 1..Len(steps) :
          LET block == params.blocks[steps[s].block]
              xin == steps[s].in
              h == xin.c
              head_dim == h \div n_head
              y == linear(xin, block.attn.c_attn.w, block.attn.c_attn.b)
              Q == Cols(y, 1, h)
              K == Cols(y, h + 1, 2 * h)
              V == Cols(y, 2 * h + 1, 3 * h)
              head(n) == FullAttention(Cols(Q, (n - 1) * head_dim + 1, n * head_dim),
                                       Cols(K, (n - 1) * head_dim + 1, n * head_dim),
                                       Cols(V, (n - 1) * head_dim + 1, n * head_dim))
              merged == MatOf(xin.r, h, LAMBDA i, j :
                           head(((j - 1) \div head_dim) + 1).v[i][((j - 1) % head_dim) + 1])
          IN  /\ h % n_head = 0
              /\ steps[s].attn = linear(merged, block.attn.c_proj.w, block.attn.c_proj.b)
              /\ HasShape(steps[s].attn, xin.r, xin.c)

\* mha has returned for two heads of two columns each over two positions.
C10_Witness ==
    /\ Len(steps) >= 1
    /\ n_head = 2
    /\ steps[1].in.c = 4
    /\ steps[1].in.r = 2
    /\ HasShape(steps[1].attn, 2, 4)

=============================================================================
